---- MODULE Spec2Model ----
(***************************************************************************)
(* TwoAxisPolygonClip (src/TwoAxisPolygonClip.c): the two-pass, two-axis   *)
(* polygon clipper, as a state machine.  One step of the machine is one    *)
(* iteration of one of the two while loops (one polygon edge), the code    *)
(* between the loops, or the return.  A C buffer entry with index i is     *)
(* element i + 1 of the sequence that models the buffer; a buffer holds    *)
(* exactly the entries written so far, so its length is one more than the  *)
(* highest index written.                                                  *)
(***************************************************************************)
EXTENDS Integers, Sequences, FiniteSets

VARIABLES
    sourcePolygon,   \* the caller's vertex list (argument sourcePolygon)
    argVertices,     \* the value of nVertices the caller passed
    clipRectangle,   \* the clip region (argument clipRectangle)
    clipBuffer,      \* scratch buffer: entries written by the X pass
    clippedPolygon,  \* output buffer: entries written by the Y pass
    nVertices,       \* the loop counter (parameter nVertices, decremented)
    pIndex,          \* destination index of the running pass
    rx1, ry1,        \* start point of the edge to clip next
    pc,              \* "xpass", "ypass", "done", "divzero"
    result,          \* the returned count (meaningful when pc = "done")
    crossings,       \* history: the vertices emitted on a clip bound
    overflowed,      \* history: an int product of this call overflowed
    call,            \* "first", "reclip", "reversed", "neighbour"
    first            \* history: what the first call was given and returned

vars == <<sourcePolygon, argVertices, clipRectangle, clipBuffer, clippedPolygon,
          nVertices, pIndex, rx1, ry1, pc, result, crossings, overflowed, call, first>>

\* Bound of the inputs: the source coordinates range over 0 .. MaxCoord.
MaxCoord == 3

Abs(a) == IF a < 0 THEN -a ELSE a

\* C integer division truncates towards zero (b # 0).
CDiv(a, b) ==
    IF (a >= 0) = (b > 0) THEN Abs(a) \div Abs(b) ELSE -(Abs(a) \div Abs(b))

\* Assignment of an int expression to an int16_t variable.
Int16(v) == ((v + 32768) % 65536) - 32768

\* The magnitude of the product a * b of two differences of int16_t values
\* (magnitudes below 65536), as hi * 65536 + lo.
ProductLimbs(a, b) ==
    LET u == (Abs(a) \div 256) * Abs(b)
        v == (Abs(a) % 256) * Abs(b)
        l0 == (u % 256) * 256 + (v % 65536)
    IN  [hi |-> (u \div 256) + (v \div 65536) + (l0 \div 65536), lo |-> l0 % 65536]

ProductNegative(a, b) == a # 0 /\ b # 0 /\ ((a < 0) # (b < 0))

\* The product a * b does not fit a 32-bit int (-2^31 .. 2^31 - 1).
IntMulOverflows(a, b) ==
    LET p == ProductLimbs(a, b)
    IN  IF ProductNegative(a, b)
        THEN p.hi > 32768 \/ (p.hi = 32768 /\ p.lo > 0)
        ELSE p.hi >= 32768

\* An overflowing product as a two's complement build leaves it: reduced
\* modulo 2^32 into the range of int.
WrappedProduct(a, b) ==
    LET p == ProductLimbs(a, b)
    IN  IF ProductNegative(a, b)
        THEN (65535 - p.hi) * 65536 + (65536 - p.lo)
        ELSE (p.hi - 65536) * 65536 + p.lo

\* The low 16 bits of the magnitude of the exact quotient (a * b) / d, by long
\* division of the limbs of the product.
ExactQuotient16(a, b, d) ==
    LET p == ProductLimbs(a, b)
        t1 == (p.hi % Abs(d)) * 256 + (p.lo \div 256)
        t2 == (t1 % Abs(d)) * 256 + (p.lo % 256)
    IN  (((t1 \div Abs(d)) % 256) * 256 + (t2 \div Abs(d))) % 65536

\* The outcomes of the int expression (a * b) / d.  When the product overflows
\* int the behaviour is undefined; the set then holds the outcomes of the
\* builds: the quotient of the wrapped product (32-bit two's complement int)
\* and the quotient of the exact product (a wider int), the latter reduced to
\* the 16 bits that the store into an int16_t keeps.
Quotient(a, b, d) ==
    IF IntMulOverflows(a, b)
    THEN {CDiv(WrappedProduct(a, b), d),
          (IF ProductNegative(a, b) = (d < 0) THEN 1 ELSE 0 - 1) * ExactQuotient16(a, b, d)}
    ELSE {CDiv(a * b, d)}

\* Interp with the division left out.
InterpWrong(o1, o2, bound, a1, a2) ==
    {Int16(o1 + Int16(q)) : q \in Quotient(o2 - o1, bound - a1, 1)}

\* The interpolation o1 + ((o2 - o1) * (bound - a1)) / (a2 - a1), stored in an
\* int16_t: the off-axis coordinate where the edge from (a1, o1) to (a2, o2)
\* meets the bound, one value for every outcome of the quotient.  The store
\* keeps the low 16 bits of the sum, which are those of o1 plus the low 16
\* bits of the quotient.
Interp(o1, o2, bound, a1, a2) ==
    {Int16(o1 + Int16(q)) : q \in Quotient(o2 - o1, bound - a1, a2 - a1)}

clip_left == clipRectangle.clipLeft
clip_right == clipRectangle.clipRight
clip_top == clipRectangle.clipTop
clip_bottom == clipRectangle.clipBottom

Vtx(px, py) == [x |-> px, y |-> py]

\* XOutRL with the second comparison turned round.
XOutRLSwapped(a1, a2) == a1 < clip_left \/ a2 < clip_right

\* Right-to-left edge completely outside the X bounds.
XOutRL(a1, a2) == a1 < clip_left \/ a2 > clip_right

\* XOutLR without the test against the left bound.
XOutLRWrong(a1, a2) == a1 > clip_right

\* XOutLR that also rejects an edge ending on the left bound.
XOutLRStrict(a1, a2) == a2 <= clip_left \/ a1 > clip_right

\* Left-to-right edge completely outside the X bounds.
XOutLR(a1, a2) == a2 < clip_left \/ a1 > clip_right

\* Bottom-to-top edge (ry1 > ry2) completely outside the Y bounds.
YOutBT(a1, a2) == a1 < clip_top \/ a2 > clip_bottom

\* YOutTB without the test against the top bound.
YOutTBWrong(a1, a2) == a1 > clip_bottom

\* YOutTB that also rejects an edge ending on the top bound.
YOutTBStrict(a1, a2) == a2 <= clip_top \/ a1 > clip_bottom

\* Top-to-bottom edge completely outside the Y bounds.
YOutTB(a1, a2) == a2 < clip_top \/ a1 > clip_bottom

\* History of one interpolation: the pass, the edge being clipped (its end
\* points before any clamping), the bound, the vertex written on the bound and
\* the source line of the division.
Crossing(pass, p, q, bound, v, site) ==
    [pass |-> pass, edge |-> {p, q}, bound |-> bound, v |-> v, site |-> site]

----------------------------------------------------------------------------
\* The inputs.

Coord == 0 .. MaxCoord
Vertex == [x : Coord, y : Coord]

\* Every vertex list of one, two or three grid points, and the axis-parallel
\* rectangles of the grid in both winding orders.
Sizes == 1 .. 3
Rectangles ==
    UNION {{<<Vtx(a, c), Vtx(b, c), Vtx(b, d), Vtx(a, d)>>,
            <<Vtx(a, c), Vtx(a, d), Vtx(b, d), Vtx(b, c)>>} :
              a \in Coord, b \in Coord, c \in Coord, d \in Coord}
Polygons ==
    UNION {[1 .. n -> Vertex] : n \in Sizes}
      \cup {r \in Rectangles : r[1].x < r[3].x /\ r[1].y < r[3].y}

\* The clip regions: left <= right and top <= bottom, inside the grid.
Bound == 1 .. 2
ClipRects ==
    {r \in [clipLeft : Bound, clipRight : Bound, clipTop : Bound, clipBottom : Bound] :
        r.clipLeft <= r.clipRight /\ r.clipTop <= r.clipBottom}

\* Inputs at the ends of the int16_t range, where the int products of the
\* interpolations overflow: every vertex pair over four extreme coordinates,
\* clipped to every region over the same coordinates.
Extreme == {0 - 32768, 0 - 25000, 25000, 32767}
ExtremePolygons == [1 .. 2 -> [x : Extreme, y : Extreme]]
ExtremeRects ==
    {r \in [clipLeft : Extreme, clipRight : Extreme, clipTop : Extreme, clipBottom : Extreme] :
        r.clipLeft <= r.clipRight /\ r.clipTop <= r.clipBottom}

\* The square of the documented scenario and its clip region.
ScenarioPolygon == <<Vtx(0, 0), Vtx(10, 0), Vtx(10, 10), Vtx(0, 10)>>
ScenarioRect == [clipLeft |-> 5, clipRight |-> 15, clipTop |-> 0 - 5, clipBottom |-> 15]

NoFirst == [called |-> FALSE]

\* Entry of TwoAxisPolygonClip: the locals after the initialisations.
Enter(poly, rect, kind, hist) ==
    /\ sourcePolygon = poly
    /\ argVertices = Len(poly)
    /\ clipRectangle = rect
    /\ clipBuffer = <<>>
    /\ clippedPolygon = <<>>
    /\ nVertices = Len(poly)
    /\ pIndex = 0
    /\ rx1 = poly[1].x
    /\ ry1 = poly[1].y
    /\ pc = "xpass"
    /\ result = 0
    /\ crossings = {}
    /\ overflowed = FALSE
    /\ call = kind
    /\ first = hist

Init ==
    \/ \E poly \in Polygons, rect \in ClipRects : Enter(poly, rect, "first", NoFirst)
    \/ \E poly \in ExtremePolygons, rect \in ExtremeRects : Enter(poly, rect, "first", NoFirst)
    \/ Enter(ScenarioPolygon, ScenarioRect, "first", NoFirst)

----------------------------------------------------------------------------
\* The X pass: one iteration of the first while loop.

\* rx1 > rx2, the edge is not bound out.
XRightToLeft ==
    /\ pc = "xpass"
    /\ nVertices > 0
    /\ LET rx2 == sourcePolygon[nVertices].x
           ry2 == sourcePolygon[nVertices].y
           p == Vtx(rx1, ry1)
           q == Vtx(rx2, ry2)
           enters == rx1 > clip_right
           leaves == rx2 < clip_left
           sx1 == IF enters THEN clip_right ELSE rx1
       IN  /\ rx1 > rx2
           /\ ~XOutRL(rx1, rx2)
           /\ IF (enters /\ rx2 - rx1 = 0) \/ (leaves /\ sx1 - rx2 = 0)
              THEN /\ pc' = "divzero"
                   /\ UNCHANGED <<clipBuffer, pIndex, rx1, ry1, nVertices, crossings, overflowed>>
              ELSE \E sy1 \in (IF enters THEN Interp(ry1, ry2, clip_right, rx1, rx2) ELSE {ry1}) :
                   \E ey \in (IF leaves THEN Interp(ry2, sy1, clip_left, rx2, sx1) ELSE {ry2}) :
                   LET start == Vtx(sx1, sy1)
                       exit == Vtx(clip_left, ey)
                   IN  /\ clipBuffer' = IF leaves THEN clipBuffer \o <<start, exit>>
                                                  ELSE Append(clipBuffer, start)
                       /\ pIndex' = IF leaves THEN pIndex + 2 ELSE pIndex + 1
                       /\ crossings' = crossings
                            \cup (IF enters THEN {Crossing("x", p, q, "right", start, 101)} ELSE {})
                            \cup (IF leaves THEN {Crossing("x", p, q, "left", exit, 111)} ELSE {})
                       /\ rx1' = rx2
                       /\ overflowed' = (\/ overflowed
                                           \/ (enters /\ IntMulOverflows(ry2 - ry1, clip_right - rx1))
                                           \/ (leaves /\ IntMulOverflows(sy1 - ry2, clip_left - rx2)))
                       /\ ry1' = ry2
                       /\ nVertices' = nVertices - 1
                       /\ pc' = pc
    /\ UNCHANGED <<sourcePolygon, argVertices, clipRectangle, clippedPolygon, result, call, first>>

\* rx1 <= rx2, the edge is not bound out.
XLeftToRight ==
    /\ pc = "xpass"
    /\ nVertices > 0
    /\ LET rx2 == sourcePolygon[nVertices].x
           ry2 == sourcePolygon[nVertices].y
           p == Vtx(rx1, ry1)
           q == Vtx(rx2, ry2)
           enters == rx1 < clip_left
           leaves == rx2 > clip_right
           sx1 == IF enters THEN clip_left ELSE rx1
       IN  /\ ~(rx1 > rx2)
           /\ ~XOutLR(rx1, rx2)
           /\ IF (enters /\ rx2 - rx1 = 0) \/ (leaves /\ sx1 - rx2 = 0)
              THEN /\ pc' = "divzero"
                   /\ UNCHANGED <<clipBuffer, pIndex, rx1, ry1, nVertices, crossings, overflowed>>
              ELSE \E sy1 \in (IF enters THEN Interp(ry1, ry2, clip_left, rx1, rx2) ELSE {ry1}) :
                   \E ey \in (IF leaves THEN Interp(ry2, sy1, clip_right, rx2, sx1) ELSE {ry2}) :
                   LET start == Vtx(sx1, sy1)
                       exit == Vtx(clip_right, ey)
                   IN  /\ clipBuffer' = IF leaves THEN clipBuffer \o <<start, exit>>
                                                  ELSE Append(clipBuffer, start)
                       /\ pIndex' = IF leaves THEN pIndex + 2 ELSE pIndex + 1
                       /\ crossings' = crossings
                            \cup (IF enters THEN {Crossing("x", p, q, "left", start, 120)} ELSE {})
                            \cup (IF leaves THEN {Crossing("x", p, q, "right", exit, 128)} ELSE {})
                       /\ rx1' = rx2
                       /\ overflowed' = (\/ overflowed
                                           \/ (enters /\ IntMulOverflows(ry2 - ry1, clip_left - rx1))
                                           \/ (leaves /\ IntMulOverflows(sy1 - ry2, clip_right - rx2)))
                       /\ ry1' = ry2
                       /\ nVertices' = nVertices - 1
                       /\ pc' = pc
    /\ UNCHANGED <<sourcePolygon, argVertices, clipRectangle, clippedPolygon, result, call, first>>

\* goto lr_boundOut: nothing is emitted, the unclipped end point is carried on.
XBoundOut ==
    /\ pc = "xpass"
    /\ nVertices > 0
    /\ LET rx2 == sourcePolygon[nVertices].x
           ry2 == sourcePolygon[nVertices].y
       IN  /\ IF rx1 > rx2 THEN XOutRL(rx1, rx2) ELSE XOutLR(rx1, rx2)
           /\ rx1' = rx2
           /\ ry1' = ry2
    /\ nVertices' = nVertices - 1
    /\ UNCHANGED <<sourcePolygon, argVertices, clipRectangle, clipBuffer, clippedPolygon,
                   pIndex, pc, result, crossings, overflowed, call, first>>

\* The X pass left fewer than three vertices: return (pIndex).
XExit ==
    /\ pc = "xpass"
    /\ nVertices = 0
    /\ pIndex < 3
    /\ pc' = "done"
    /\ result' = pIndex
    /\ UNCHANGED <<sourcePolygon, argVertices, clipRectangle, clipBuffer, clippedPolygon,
                   nVertices, pIndex, rx1, ry1, crossings, overflowed, call, first>>

\* Set up the Y pass over the vertices the X pass produced.
YBegin ==
    /\ pc = "xpass"
    /\ nVertices = 0
    /\ ~(pIndex < 3)
    /\ nVertices' = pIndex
    /\ rx1' = clipBuffer[1].x
    /\ ry1' = clipBuffer[1].y
    /\ pIndex' = 0
    /\ pc' = "ypass"
    /\ UNCHANGED <<sourcePolygon, argVertices, clipRectangle, clipBuffer, clippedPolygon,
                   result, crossings, overflowed, call, first>>

----------------------------------------------------------------------------
\* The Y pass: one iteration of the second while loop.

\* ry1 > ry2, the edge is not bound out.
YBottomToTop ==
    /\ pc = "ypass"
    /\ nVertices > 0
    /\ LET rx2 == clipBuffer[nVertices].x
           ry2 == clipBuffer[nVertices].y
           p == Vtx(rx1, ry1)
           q == Vtx(rx2, ry2)
           enters == ry1 > clip_bottom
           leaves == ry2 < clip_top
           sy1 == IF enters THEN clip_bottom ELSE ry1
       IN  /\ ry1 > ry2
           /\ ~YOutBT(ry1, ry2)
           /\ IF (enters /\ ry2 - ry1 = 0) \/ (leaves /\ sy1 - ry2 = 0)
              THEN /\ pc' = "divzero"
                   /\ UNCHANGED <<clippedPolygon, pIndex, rx1, ry1, nVertices, crossings, overflowed>>
              ELSE \E sx1 \in (IF enters THEN Interp(rx1, rx2, clip_bottom, ry1, ry2) ELSE {rx1}) :
                   \E ex \in (IF leaves THEN Interp(rx2, sx1, clip_top, ry2, sy1) ELSE {rx2}) :
                   LET start == Vtx(sx1, sy1)
                       exit == Vtx(ex, clip_top)
                   IN  /\ clippedPolygon' = IF leaves THEN clippedPolygon \o <<start, exit>>
                                                      ELSE Append(clippedPolygon, start)
                       /\ pIndex' = IF leaves THEN pIndex + 2 ELSE pIndex + 1
                       /\ crossings' = crossings
                            \cup (IF enters THEN {Crossing("y", p, q, "bottom", start, 162)} ELSE {})
                            \cup (IF leaves THEN {Crossing("y", p, q, "top", exit, 170)} ELSE {})
                       /\ rx1' = rx2
                       /\ overflowed' = (\/ overflowed
                                           \/ (enters /\ IntMulOverflows(rx2 - rx1, clip_bottom - ry1))
                                           \/ (leaves /\ IntMulOverflows(sx1 - rx2, clip_top - ry2)))
                       /\ ry1' = ry2
                       /\ nVertices' = nVertices - 1
                       /\ pc' = pc
    /\ UNCHANGED <<sourcePolygon, argVertices, clipRectangle, clipBuffer, result, call, first>>

\* ry1 <= ry2, the edge is not bound out.
YTopToBottom ==
    /\ pc = "ypass"
    /\ nVertices > 0
    /\ LET rx2 == clipBuffer[nVertices].x
           ry2 == clipBuffer[nVertices].y
           p == Vtx(rx1, ry1)
           q == Vtx(rx2, ry2)
           enters == ry1 < clip_top
           leaves == ry2 > clip_bottom
           sy1 == IF enters THEN clip_top ELSE ry1
       IN  /\ ~(ry1 > ry2)
           /\ ~YOutTB(ry1, ry2)
           /\ IF (enters /\ ry2 - ry1 = 0) \/ (leaves /\ sy1 - ry2 = 0)
              THEN /\ pc' = "divzero"
                   /\ UNCHANGED <<clippedPolygon, pIndex, rx1, ry1, nVertices, crossings, overflowed>>
              ELSE \E sx1 \in (IF enters THEN Interp(rx1, rx2, clip_top, ry1, ry2) ELSE {rx1}) :
                   \E ex \in (IF leaves THEN Interp(rx2, sx1, clip_bottom, ry2, sy1) ELSE {rx2}) :
                   LET start == Vtx(sx1, sy1)
                       exit == Vtx(ex, clip_bottom)
                   IN  /\ clippedPolygon' = IF leaves THEN clippedPolygon \o <<start, exit>>
                                                      ELSE Append(clippedPolygon, start)
                       /\ pIndex' = IF leaves THEN pIndex + 2 ELSE pIndex + 1
                       /\ crossings' = crossings
                            \cup (IF enters THEN {Crossing("y", p, q, "top", start, 178)} ELSE {})
                            \cup (IF leaves THEN {Crossing("y", p, q, "bottom", exit, 186)} ELSE {})
                       /\ rx1' = rx2
                       /\ overflowed' = (\/ overflowed
                                           \/ (enters /\ IntMulOverflows(rx2 - rx1, clip_top - ry1))
                                           \/ (leaves /\ IntMulOverflows(sx1 - rx2, clip_bottom - ry2)))
                       /\ ry1' = ry2
                       /\ nVertices' = nVertices - 1
                       /\ pc' = pc
    /\ UNCHANGED <<sourcePolygon, argVertices, clipRectangle, clipBuffer, result, call, first>>

\* goto tb_boundOut.
YBoundOut ==
    /\ pc = "ypass"
    /\ nVertices > 0
    /\ LET rx2 == clipBuffer[nVertices].x
           ry2 == clipBuffer[nVertices].y
       IN  /\ IF ry1 > ry2 THEN YOutBT(ry1, ry2) ELSE YOutTB(ry1, ry2)
           /\ rx1' = rx2
           /\ ry1' = ry2
    /\ nVertices' = nVertices - 1
    /\ UNCHANGED <<sourcePolygon, argVertices, clipRectangle, clipBuffer, clippedPolygon,
                   pIndex, pc, result, crossings, overflowed, call, first>>

\* return (pIndex) after the Y pass.
Return ==
    /\ pc = "ypass"
    /\ nVertices = 0
    /\ pc' = "done"
    /\ result' = pIndex
    /\ UNCHANGED <<sourcePolygon, argVertices, clipRectangle, clipBuffer, clippedPolygon,
                   nVertices, pIndex, rx1, ry1, crossings, overflowed, call, first>>

Clip ==
    \/ XRightToLeft
    \/ XLeftToRight
    \/ XBoundOut
    \/ XExit
    \/ YBegin
    \/ YBottomToTop
    \/ YTopToBottom
    \/ YBoundOut
    \/ Return

----------------------------------------------------------------------------
\* A caller that clips a second polygon against the same region.

\* Entry of TwoAxisPolygonClip for a later call.
Call(poly, kind, hist) ==
    /\ sourcePolygon' = poly
    /\ argVertices' = Len(poly)
    /\ clipBuffer' = <<>>
    /\ clippedPolygon' = <<>>
    /\ nVertices' = Len(poly)
    /\ pIndex' = 0
    /\ rx1' = poly[1].x
    /\ ry1' = poly[1].y
    /\ pc' = "xpass"
    /\ result' = 0
    /\ crossings' = {}
    /\ overflowed' = FALSE
    /\ call' = kind
    /\ first' = hist
    /\ UNCHANGED clipRectangle

\* The sign of the cross product (b - a) x (c - a), compared limb by limb so
\* that coordinates at the ends of the int16_t range are covered.
Cross(a, b, c) ==
    LET p == ProductLimbs(b.x - a.x, c.y - a.y)
        q == ProductLimbs(b.y - a.y, c.x - a.x)
        sp == IF ProductNegative(b.x - a.x, c.y - a.y) THEN 0 - 1 ELSE 1
        sq == IF ProductNegative(b.y - a.y, c.x - a.x) THEN 0 - 1 ELSE 1
        dh == sp * p.hi - sq * q.hi
        dl == sp * p.lo - sq * q.lo
    IN  IF dh >= 2 THEN 1
        ELSE IF dh <= 0 - 2 THEN 0 - 1
        ELSE dh * 65536 + dl

Succ(poly, i) == (i % Len(poly)) + 1

\* Strictly convex: every other vertex lies strictly on one and the same side
\* of every edge.
IsConvex(poly) ==
    /\ Len(poly) >= 3
    /\ \E s \in {1, 0 - 1} :
          \A i \in 1 .. Len(poly) :
             \A j \in (1 .. Len(poly)) \ {i, Succ(poly, i)} :
                s * Cross(poly[i], poly[Succ(poly, i)], poly[j]) > 0

Reverse(poly) == [i \in 1 .. Len(poly) |-> poly[Len(poly) + 1 - i]]

History(shared) ==
    [called |-> TRUE, source |-> sourcePolygon, count |-> result, xout |-> clipBuffer,
     out |-> clippedPolygon, crossings |-> crossings, overflowed |-> overflowed,
     shared |-> shared]

\* numVertices = TwoAxisPolygonClip(thePolygon, numVertices, ...) on the result.
Reclip ==
    /\ pc = "done"
    /\ call = "first"
    /\ result >= 3
    /\ Call(SubSeq(clippedPolygon, 1, result), "reclip", History({}))

\* The same polygon given in the opposite winding order.
ClipReversed ==
    /\ pc = "done"
    /\ call = "first"
    /\ IsConvex(sourcePolygon)
    /\ Call(Reverse(sourcePolygon), "reversed", History({}))

\* The triangle on the other side of edge i: it completes the edge and the
\* vertex after it to a parallelogram and has the same winding order.
Neighbour(poly, i) ==
    LET p == poly[i]
        q == poly[Succ(poly, i)]
        r == poly[Succ(poly, Succ(poly, i))]
    IN  <<q, p, Vtx(p.x + q.x - r.x, p.y + q.y - r.y)>>

ClipNeighbour ==
    /\ pc = "done"
    /\ call = "first"
    /\ IsConvex(sourcePolygon)
    /\ \E i \in 1 .. Len(sourcePolygon) :
          Call(Neighbour(sourcePolygon, i), "neighbour",
               History({sourcePolygon[i], sourcePolygon[Succ(sourcePolygon, i)]}))

Next ==
    \/ Clip
    \/ Reclip
    \/ ClipReversed
    \/ ClipNeighbour

Spec == Init /\ [][Next]_vars

----------------------------------------------------------------------------
\* The properties.

Range(s) == {s[i] : i \in 1 .. Len(s)}

InXBounds(v) == clip_left <= v.x /\ v.x <= clip_right

InRegion(v) == InXBounds(v) /\ clip_top <= v.y /\ v.y <= clip_bottom

\* b is a cyclic rotation of a.
IsRotation(a, b) ==
    /\ Len(a) = Len(b)
    /\ \E k \in 0 .. (Len(a) - 1) :
          \A i \in 1 .. Len(a) : b[i] = a[((i - 1 + k) % Len(a)) + 1]

RepeatsVertex(poly) ==
    \E i \in 1 .. Len(poly) : Len(poly) >= 2 /\ poly[i] = poly[Succ(poly, i)]

\* C1: for a convex source polygon, neither pass writes an entry with an index
\* above 2 * nVertices - 1, nVertices being the count the caller passed: the
\* scratch buffer and the output buffer never hold more than 2 * nVertices
\* entries.
C1_BufferBound ==
    IsConvex(sourcePolygon) =>
        /\ Len(clipBuffer) <= 2 * argVertices
        /\ Len(clippedPolygon) <= 2 * argVertices

\* C2: as long as no int product of the call has overflowed, every vertex the
\* X pass writes to the scratch buffer has left <= x <= right, and when the
\* returned count is at least 3 every one of the returned vertices lies in the
\* clip region.
C2_InsideRegion ==
    ~overflowed =>
        /\ \A i \in 1 .. Len(clipBuffer) : InXBounds(clipBuffer[i])
        /\ (pc = "done" /\ result >= 3) =>
              \A i \in 1 .. result : InRegion(clippedPolygon[i])

\* C2 witness: a call that returned at least 3 vertices after interpolating on
\* an X bound and on a Y bound.
C2_Witness ==
    /\ pc = "done"
    /\ call = "first"
    /\ ~overflowed
    /\ result >= 3
    /\ \E c \in crossings : c.pass = "x"
    /\ \E c \in crossings : c.pass = "y"

\* C3: a polygon of at least 3 vertices that all lie in the clip region is
\* returned unchanged: the count is nVertices and output entry i is source
\* vertex i.
C3_FullContainment ==
    (/\ pc = "done"
     /\ argVertices >= 3
     /\ \A v \in Range(sourcePolygon) : InRegion(v))
    => (result = argVertices /\ clippedPolygon = sourcePolygon)

\* C3 witness: a returned call on a convex triangle that lies in the region.
C3_Witness ==
    /\ pc = "done"
    /\ call = "first"
    /\ IsConvex(sourcePolygon)
    /\ \A v \in Range(sourcePolygon) : InRegion(v)

AllLeft == \A v \in Range(sourcePolygon) : v.x < clip_left
AllRight == \A v \in Range(sourcePolygon) : v.x > clip_right
AllAbove == \A v \in Range(sourcePolygon) : v.y < clip_top
AllBelow == \A v \in Range(sourcePolygon) : v.y > clip_bottom

\* C4: a polygon whose vertices all lie strictly beyond one side of the clip
\* region returns a count below 3, and exactly 0 when they all lie left of it.
C4_TotalExclusion ==
    (pc = "done" /\ argVertices >= 1) =>
        /\ (AllLeft \/ AllRight \/ AllAbove \/ AllBelow) => result < 3
        /\ AllLeft => result = 0

\* C4 witness: a convex polygon below the region that the X pass kept (three
\* vertices or more) and the Y pass then excluded.
C4_Witness ==
    /\ pc = "done"
    /\ IsConvex(sourcePolygon)
    /\ AllBelow
    /\ Len(clipBuffer) >= 3

\* C5: two convex polygons with a common edge, clipped against the same region:
\* on every bound the common edge crosses, both calls emit the same vertex.
C5_BoundarySharing ==
    (call = "neighbour" /\ IsConvex(first.source) /\ IsConvex(sourcePolygon)) =>
        \A e1 \in first.crossings, e2 \in crossings :
            (/\ e1.edge = first.shared
             /\ e2.edge = first.shared
             /\ e1.pass = e2.pass
             /\ e1.bound = e2.bound)
            => e1.v = e2.v

\* C6: clipping a convex polygon and clipping the same vertex list reversed
\* return the same count and the same set of output vertices, the second
\* output being the first in reverse cyclic order.
C6_OrientationInvariance ==
    (call = "reversed" /\ pc = "done" /\ IsConvex(first.source)) =>
        /\ result = first.count
        /\ result >= 3 =>
              /\ Range(clippedPolygon) = Range(first.out)
              /\ IsRotation(Reverse(first.out), clippedPolygon)

\* C7: for a convex polygon with pairwise distinct vertices and a returned
\* count N >= 3, no two cyclically consecutive vertices among the first N
\* output entries are equal.
C7_NoDuplicates ==
    (pc = "done" /\ IsConvex(sourcePolygon) /\ result >= 3) =>
        \A i \in 1 .. result : clippedPolygon[i] # clippedPolygon[(i % result) + 1]

\* C8: clipping the N >= 3 returned vertices again against the same region
\* returns N and the same output, entry by entry.
C8_ReclipIdentity ==
    (call = "reclip" /\ pc = "done") =>
        (result = first.count /\ clippedPolygon = first.out)

\* C8 witness: a returned second call on the result of a first call that
\* clipped a convex polygon on some bound.
C8_Witness ==
    /\ call = "reclip"
    /\ pc = "done"
    /\ IsConvex(first.source)
    /\ first.crossings # {}
    /\ first.out # first.source

IsScenario ==
    /\ call = "first"
    /\ sourcePolygon = ScenarioPolygon
    /\ clipRectangle = ScenarioRect

\* C9 as stated: the square (0,0),(10,0),(10,10),(0,10) clipped against
\* left=5, right=15, top=-5, bottom=15 returns 4 and the output entries are,
\* in index order, (5,0),(10,0),(10,10),(5,10).
C9_ScenarioAsStated ==
    (IsScenario /\ pc = "done") =>
        /\ result = 4
        /\ clippedPolygon = <<Vtx(5, 0), Vtx(10, 0), Vtx(10, 10), Vtx(5, 10)>>

\* C9 amended: the scenario returns 4 and the output entries are, in index
\* order, (5,10),(5,0),(10,0),(10,10): the stated rectangle in the stated
\* cyclic order, starting at (5,10).
C9_ScenarioOutput ==
    (IsScenario /\ pc = "done") =>
        /\ result = 4
        /\ clippedPolygon = <<Vtx(5, 10), Vtx(5, 0), Vtx(10, 0), Vtx(10, 10)>>
        /\ IsRotation(<<Vtx(5, 0), Vtx(10, 0), Vtx(10, 10), Vtx(5, 10)>>, clippedPolygon)

\* C9 witness: the scenario's call has returned.
C9_Witness == IsScenario /\ pc = "done" /\ Len(clippedPolygon) = 4

\* C10: no interpolation division of either pass is executed with a zero
\* divisor.
C10_DivisionSafety == pc # "divzero"

\* C10 witness: a returned call on a vertex list with a repeated vertex in
\* which an X-pass edge was clipped on both bounds (its exit division used
\* the clamped start point) and the Y pass interpolated too.
C10_Witness ==
    /\ pc = "done"
    /\ call = "first"
    /\ RepeatsVertex(sourcePolygon)
    /\ \E c1, c2 \in crossings :
          c1.pass = "x" /\ c2.pass = "x" /\ c1.edge = c2.edge /\ c1.bound # c2.bound
    /\ \E c \in crossings : c.pass = "y"

====
